---- MODULE Spec2Model ----
(***************************************************************************)
(* Session coordinator of perceptus-go-sdk: the RoboSession, its four      *)
(* mailboxes (Go buffered channels), the shutdown protocol Stop(), the     *)
(* speech-to-text callback, the transcript aggregator and the intention    *)
(* analysis.  Strings are sequences of tokens; confidences are hundredths. *)
(* The repository holds two revisions of the session: the one in package   *)
(* handlers (websocket_handler.go, Stop guarded by IsActive, analysis run  *)
(* synchronously, part_011) and the one in package models (session.go,     *)
(* Stop unguarded, analysis run in its own goroutine and delivered on      *)
(* IntentionCh, intention_handler.go).  rev selects the revision.          *)
(***************************************************************************)
EXTENDS Integers, Sequences, FiniteSets, TLC

\* ---------------------------------------------------------------- bounds
\* Speech-to-text events followed per session: one utterance while the
\* session shuts down, two utterances in a row, and the analyses they start.
MaxDeepgramEvents == 2
MaxUtteranceEvents == 4
MaxAnalyses == 2
MaxInterruptions == 1
MaxCaptures == 2
MaxFrames == 2

\* ------------------------------------------------------ program constants
SESSION_END == <<"<SESSION_END>">>
END_OF_SPEECH == <<"<END_OF_SPEECH>">>
StringChCap == 100
IntentionChCap == 10
NotifyThreshold == 70
DeepgramThreshold == 60

Revs == {"handlers", "models"}
StringChans == {"TranscriptionCh", "InterruptionCh", "VideoAnalysisCh"}
Chans == StringChans \cup {"IntentionCh"}
Stoppers == {"reader", "closer"}
Loops == {"aggregator", "audioRun", "coordinator", "intentionRun", "videoRun"}
Handlers == {"audio", "video", "intention"}
AnalysisIds == 1..MaxAnalyses
CaptureIds == 1..MaxCaptures

VARIABLES
    rev,                \* which revision of the session is built
    IsActive,           \* RoboSession.IsActive
    CurrentContext,     \* RoboSession.CurrentContext, as a generation number
    cancelled,          \* the generations whose CancelFunc has been called
    chans,              \* mailbox -> buffered values, oldest first
    closed,             \* the mailboxes close() has been applied to
    CurrentTranscript,  \* RoboSession.CurrentTranscript
    connOpen,           \* RoboSession.Connection not yet closed
    panicked,           \* "none", or the runtime panic that ended the process
    pc,                 \* task -> position
    readerPath,         \* "none", "stop" (client command) or "disconnect"
    stopBodies,         \* how many times the body of Stop() has been entered
    calledActive,       \* the tasks that called Stop() while IsActive held
    handlerActive,      \* handler -> its isActive field
    dgOpen,             \* the speech-to-text connection is not stopped
    dgPending,          \* the value the callback is sending
    dgSent,             \* the values the callback has forwarded, in order
    dgBudget,           \* sends the callback makes at most
    dgConfidence,       \* confidence of the transcript the callback last accepted
    analyses,           \* id -> one run of analyzeIntention
    notified,           \* orchestrator notifications started
    sentToClient,       \* results and confirmations written to the client
    LastActivity,       \* RoboSession.LastActivity, as a logical time
    sentinelTaken,      \* <<task, mailbox>> : the task received SESSION_END there
    dgInterrupts,       \* interim transcripts the callback has put on InterruptionCh
    VideoFrequency,     \* RoboSession.VideoFrequency, in milliseconds
    AudioFrequency,     \* RoboSession.AudioFrequency, in milliseconds
    tickerPeriod,       \* period of the ticker VideoHandler.run made, 0 before it
    cycleFrequency,     \* VideoFrequency as it was when the ticker's cycle began
    captures,           \* id -> one run of captureAndAnalyze
    videoFrames,        \* the strings handleVideoData has handed off, in order
    pineconeIdx         \* IntentionHandler.pineconeIdx: "nil" or "conn"

sessionVars == <<IsActive, CurrentContext, cancelled, CurrentTranscript, connOpen>>
stopVars == <<readerPath, stopBodies, calledActive>>
dgVars == <<dgOpen, dgPending, dgSent, dgBudget, dgConfidence>>
outVars == <<notified, sentToClient>>
auxVars == <<LastActivity, sentinelTaken, dgInterrupts>>
cadenceVars == <<VideoFrequency, AudioFrequency>>
videoVars == <<cadenceVars, tickerPeriod, cycleFrequency, captures, videoFrames>>

vars == <<rev, IsActive, CurrentContext, cancelled, chans, closed,
          CurrentTranscript, connOpen, panicked, pc, readerPath,
          stopBodies, calledActive, handlerActive, dgOpen, dgPending,
          dgSent, dgBudget, dgConfidence, analyses, notified, sentToClient,
          LastActivity,
          sentinelTaken, dgInterrupts, VideoFrequency, AudioFrequency,
          tickerPeriod, cycleFrequency, captures, videoFrames, pineconeIdx>>

Running == panicked = "none"

\* ------------------------------------------------------------- strings
RECURSIVE TrimLeft(_)
TrimLeft(s) ==
    IF s = <<>> THEN s
    ELSE IF Head(s) = " " THEN TrimLeft(Tail(s)) ELSE s

RECURSIVE TrimRight(_)
TrimRight(s) ==
    IF s = <<>> THEN s
    ELSE IF s[Len(s)] = " " THEN TrimRight(SubSeq(s, 1, Len(s) - 1)) ELSE s

\* strings.TrimSpace
TrimSpace(s) == TrimRight(TrimLeft(s))

\* ------------------------------------------------------------- channels
Cap(c) == IF c = "IntentionCh" THEN IntentionChCap ELSE StringChCap

ZeroResult == [utt |-> 0, HasClearIntention |-> FALSE, Confidence |-> 0]
ZeroValue(c) == IF c = "IntentionCh" THEN ZeroResult ELSE <<>>

\* <-ch : a buffered value, or the zero value once ch is closed and drained.
CanRecv(c) == chans[c] # <<>> \/ c \in closed
RecvVal(c) == IF chans[c] # <<>> THEN Head(chans[c]) ELSE ZeroValue(c)
AfterRecv(c) ==
    IF chans[c] # <<>> THEN [chans EXCEPT ![c] = Tail(@)] ELSE chans

\* ------------------------------------------------------------------ Init
NoAnalysis ==
    [pc |-> "unused", transcript |-> <<>>, scope |-> 0, result |-> ZeroResult,
     retrieval |-> "none", environmentContext |-> <<>>,
     notify |-> "none", payloadTranscript |-> <<>>]

NoCapture == [pc |-> "unused", period |-> 0]

\* VideoFrequency: 30 * time.Second (websocket_handler.go),
\* 10 * time.Second (session.go).
DefaultVideoFrequency == IF rev = "handlers" THEN 30000 ELSE 10000

\* make(chan ..., n): nothing buffered.
EmptyMailboxes == [c \in Chans |-> <<>>]

\* NewRoboSession, InitAudioHandler, InitIntentionHandler and the start of
\* the goroutines.  handleSessionOrchestrator belongs to the build on
\* models.RoboSession; Close() has a caller only where one is modelled.
InitSessionAt(budget, mailboxes, video, index) ==
    /\ rev \in Revs
    /\ IsActive = TRUE
    /\ CurrentContext = 0
    /\ cancelled = {}
    /\ chans = mailboxes
    /\ closed = {}
    /\ CurrentTranscript = <<>>
    /\ connOpen = TRUE
    /\ panicked = "none"
    /\ pc = [t \in Stoppers \cup Loops \cup {"deepgram"} |->
                CASE t = "reader" -> "read"
                  [] t = "closer" -> "idle"
                  [] t = "deepgram" -> "idle"
                  [] t = "coordinator" ->
                       IF rev = "models" THEN "loop" ELSE "absent"
                  [] t = "videoRun" -> video
                  [] OTHER -> "loop"]
    /\ readerPath = "none"
    /\ stopBodies = 0
    /\ calledActive = {}
    /\ handlerActive = [h \in Handlers |-> TRUE]
    /\ dgOpen = TRUE
    /\ dgPending = <<>>
    /\ dgSent = <<>>
    /\ dgBudget = budget
    /\ dgConfidence = 0
    /\ analyses = [i \in AnalysisIds |-> NoAnalysis]
    /\ notified = {}
    /\ sentToClient = {}
    /\ LastActivity = 0
    /\ sentinelTaken = {}
    /\ dgInterrupts = 0
    /\ VideoFrequency = DefaultVideoFrequency
    /\ AudioFrequency = 100
    /\ tickerPeriod = 0
    /\ cycleFrequency = 0
    /\ captures = [k \in CaptureIds |-> NoCapture]
    /\ videoFrames = <<>>
    /\ pineconeIdx = index

\* The video handler as part_009 has it: run() makes no ticker and is
\* taken up at the head of its loop.  GetPineconeIndex has failed and the
\* handlers go on without a store connection.
InitSession(budget, mailboxes) ==
    InitSessionAt(budget, mailboxes, "loop", "nil")

Init == InitSession(MaxDeepgramEvents, EmptyMailboxes)

InitUtterances == InitSession(MaxUtteranceEvents, EmptyMailboxes)

\* A session that has analysed earlier utterances whose results nobody has
\* taken from IntentionCh yet: utterance -k .. -1, oldest first.
Backlog(k) ==
    [j \in 1..k |-> [utt |-> j - k - 1, HasClearIntention |-> FALSE,
                     Confidence |-> 50]]

\* A session one of whose string mailboxes has filled up, or is one short
\* of it, with values nobody has received yet.
Pending(k) == [j \in 1..k |-> <<"a">>]

InitFull ==
    \E c \in StringChans, k \in (StringChCap - 1)..StringChCap :
        InitSession(MaxDeepgramEvents, [EmptyMailboxes EXCEPT ![c] = Pending(k)])

InitBackpressure ==
    /\ rev = "models"
    /\ \E k \in (IntentionChCap - MaxAnalyses)..IntentionChCap :
         InitSession(MaxUtteranceEvents,
                     [EmptyMailboxes EXCEPT !["IntentionCh"] = Backlog(k)])

\* -------------------------------------------------- SendToAllChannels
\* Three selects with a default branch, on TranscriptionCh, InterruptionCh
\* and VideoAnalysisCh in that order; IntentionCh carries no strings.
SendToUnbounded(ch, c, v) == [ch EXCEPT ![c] = Append(@, v)]

SendTo(ch, c, v) ==
    IF Len(ch[c]) < Cap(c) THEN [ch EXCEPT ![c] = Append(@, v)] ELSE ch

SendToAllChannelsPanics == closed \cap StringChans # {}

SendToAllChannelsChans(message) ==
    LET afterT == SendTo(chans, "TranscriptionCh", message)
        afterI == SendTo(afterT, "InterruptionCh", message)
        afterV == SendTo(afterI, "VideoAnalysisCh", message)
    IN  IF "TranscriptionCh" \in closed THEN chans
        ELSE IF "InterruptionCh" \in closed THEN afterT
        ELSE IF "VideoAnalysisCh" \in closed THEN afterI
        ELSE afterV

SendToAllChannelsBlocking(t, from, to) ==
    /\ Running
    /\ pc[t] = from
    /\ \A c \in StringChans : Len(chans[c]) < Cap(c)
    /\ chans' = SendToAllChannelsChans(SESSION_END)
    /\ IF SendToAllChannelsPanics
         THEN /\ panicked' = "send on closed channel"
              /\ UNCHANGED pc
         ELSE /\ pc' = [pc EXCEPT ![t] = to]
              /\ UNCHANGED panicked
    /\ UNCHANGED <<rev, sessionVars, closed, stopVars, handlerActive, dgVars,
                   analyses, outVars, auxVars, videoVars,
                   pineconeIdx>>

SendToAllChannels(t, from, to) ==
    /\ Running
    /\ pc[t] = from
    /\ chans' = SendToAllChannelsChans(SESSION_END)
    /\ IF SendToAllChannelsPanics
         THEN /\ panicked' = "send on closed channel"
              /\ UNCHANGED pc
         ELSE /\ pc' = [pc EXCEPT ![t] = to]
              /\ UNCHANGED panicked
    /\ UNCHANGED <<rev, sessionVars, closed, stopVars, handlerActive, dgVars,
                   analyses, outVars,
                   auxVars, videoVars,
                   pineconeIdx>>

\* ------------------------------------------------------------------ Stop
StopReturn(t) ==
    IF t = "reader" /\ readerPath = "stop" THEN "confirm" ELSE "done"

\* websocket_handler.go: if rs.IsActive { ... } ; session.go: no test.
StopGuardPasses == rev = "models" \/ IsActive

StopEnter(t) ==
    /\ Running
    /\ pc[t] = "Stop"
    /\ calledActive' = IF IsActive THEN calledActive \cup {t} ELSE calledActive
    /\ IF StopGuardPasses
         THEN /\ pc' = [pc EXCEPT ![t] = "Stop_set"]
              /\ stopBodies' = stopBodies + 1
         ELSE /\ pc' = [pc EXCEPT ![t] = StopReturn(t)]
              /\ UNCHANGED stopBodies
    /\ UNCHANGED <<rev, sessionVars, chans, closed, panicked, readerPath,
                   handlerActive, dgVars, analyses, outVars,
                   auxVars, videoVars,
                   pineconeIdx>>

StopSetInactive(t) ==
    /\ Running
    /\ pc[t] = "Stop_set"
    /\ IsActive' = FALSE
    /\ pc' = [pc EXCEPT ![t] = "Stop_send"]
    /\ UNCHANGED <<rev, CurrentContext, cancelled, CurrentTranscript, connOpen,
                   chans, closed, panicked, stopVars, handlerActive, dgVars,
                   analyses, outVars,
                   auxVars, videoVars,
                   pineconeIdx>>

StopBroadcast(t) == SendToAllChannels(t, "Stop_send", "Stop_cancel")

\* rs.CancelCurrentContext()
StopCancel(t) ==
    /\ Running
    /\ pc[t] = "Stop_cancel"
    /\ cancelled' = cancelled \cup {CurrentContext}
    /\ pc' = [pc EXCEPT ![t] = "Stop_close"]
    /\ UNCHANGED <<rev, IsActive, CurrentContext, CurrentTranscript, connOpen,
                   chans, closed, panicked, stopVars, handlerActive, dgVars,
                   analyses, outVars,
                   auxVars, videoVars,
                   pineconeIdx>>

\* session.go closes IntentionCh as well; the handlers session has none.
ClosedByStop == IF rev = "models" THEN Chans ELSE StringChans

\* close(ch) on each mailbox in turn; close of a closed channel panics.
StopCloseChannels(t) ==
    /\ Running
    /\ pc[t] = "Stop_close"
    /\ IF closed \cap ClosedByStop # {}
         THEN /\ panicked' = "close of closed channel"
              /\ UNCHANGED <<closed, pc>>
         ELSE /\ closed' = closed \cup ClosedByStop
              /\ pc' = [pc EXCEPT ![t] = "Stop_conn"]
              /\ UNCHANGED panicked
    /\ UNCHANGED <<rev, sessionVars, chans, stopVars, handlerActive, dgVars,
                   analyses, outVars,
                   auxVars, videoVars,
                   pineconeIdx>>

\* rs.Connection.Close()
StopCloseConnection(t) ==
    /\ Running
    /\ pc[t] = "Stop_conn"
    /\ connOpen' = FALSE
    /\ pc' = [pc EXCEPT ![t] = StopReturn(t)]
    /\ UNCHANGED <<rev, IsActive, CurrentContext, cancelled, CurrentTranscript,
                   chans, closed, panicked, stopVars, handlerActive, dgVars,
                   analyses, outVars,
                   auxVars, videoVars,
                   pineconeIdx>>

Stop(t) ==
    \/ StopEnter(t)
    \/ StopSetInactive(t)
    \/ StopBroadcast(t)
    \/ StopCancel(t)
    \/ StopCloseChannels(t)
    \/ StopCloseConnection(t)

\* Close() delegates to Stop(); called by the code that owns the session.
Close ==
    /\ Running
    /\ pc["closer"] = "idle"
    /\ pc' = [pc EXCEPT !["closer"] = "Stop"]
    /\ UNCHANGED <<rev, sessionVars, chans, closed, panicked, stopVars,
                   handlerActive, dgVars, analyses, outVars,
                   auxVars, videoVars,
                   pineconeIdx>>

\* ------------------------------------------- listenWebsocketMessages
\* case "stop": SendToAllChannels, Stop, write the confirmation, return.
ReaderStopCommand ==
    /\ Running
    /\ pc["reader"] = "read"
    /\ readerPath' = "stop"
    /\ pc' = [pc EXCEPT !["reader"] = "Pre_send"]
    /\ UNCHANGED <<rev, sessionVars, chans, closed, panicked, stopBodies,
                   calledActive, handlerActive, dgVars, analyses, outVars,
                   auxVars, videoVars,
                   pineconeIdx>>

ReaderDisconnectAbandoning ==
    /\ Running
    /\ pc["reader"] = "read"
    /\ readerPath' = "disconnect"
    /\ pc' = [pc EXCEPT !["reader"] = "done"]
    /\ UNCHANGED <<rev, sessionVars, chans, closed, panicked, stopBodies,
                   calledActive, handlerActive, dgVars, analyses, outVars,
                   auxVars, videoVars,
                   pineconeIdx>>

\* conn.ReadJSON fails: break, then SendToAllChannels and Stop
\* (websocket_handler.go); part_013 calls session.Stop() with no broadcast
\* of its own before it.
ReaderDisconnect ==
    /\ Running
    /\ pc["reader"] = "read"
    /\ readerPath' = "disconnect"
    /\ pc' = [pc EXCEPT !["reader"] = IF rev = "models" THEN "Stop" ELSE "Pre_send"]
    /\ UNCHANGED <<rev, sessionVars, chans, closed, panicked, stopBodies,
                   calledActive, handlerActive, dgVars, analyses, outVars,
                   auxVars, videoVars,
                   pineconeIdx>>

ReaderBroadcast == SendToAllChannels("reader", "Pre_send", "Stop")

\* conn.WriteJSON(stopMsg): an error on a closed connection is only logged.
ReaderConfirm ==
    /\ Running
    /\ pc["reader"] = "confirm"
    /\ pc' = [pc EXCEPT !["reader"] = "done"]
    /\ sentToClient' = IF connOpen
                         THEN sentToClient \cup {[type |-> "stop_confirmation", utt |-> 0]}
                         ELSE sentToClient
    /\ UNCHANGED <<rev, sessionVars, chans, closed, panicked, stopVars,
                   handlerActive, dgVars, analyses, notified,
                   auxVars, videoVars,
                   pineconeIdx>>

\* ------------------------------------------------- DeepgramCallback
RawTranscripts == {<<>>, <<" ">>, <<"a">>, <<" ", "b", " ">>}
Confidences == {55, 60}

MessageForwardsAnyConfidence(raw, conf, final) ==
    /\ TrimSpace(raw) # <<>>
    /\ TrimSpace(raw) # <<" ">>
    /\ final

\* Message: trims, drops blank and low-confidence text, forwards final text.
MessageForwards(raw, conf, final) ==
    /\ TrimSpace(raw) # <<>>
    /\ TrimSpace(raw) # <<" ">>
    /\ ~(conf < DeepgramThreshold)
    /\ final

DeepgramMessage ==
    /\ Running
    /\ dgOpen
    /\ pc["deepgram"] = "idle"
    /\ Len(dgSent) < dgBudget
    /\ \E raw \in RawTranscripts, conf \in Confidences, final \in BOOLEAN :
         IF MessageForwards(raw, conf, final)
           THEN /\ dgPending' = TrimSpace(raw)
                /\ dgSent' = Append(dgSent, TrimSpace(raw))
                /\ dgConfidence' = conf
                /\ pc' = [pc EXCEPT !["deepgram"] = "send"]
           ELSE UNCHANGED <<dgPending, dgSent, dgConfidence, pc>>
    /\ UNCHANGED <<rev, sessionVars, chans, closed, panicked, stopVars,
                   handlerActive, dgOpen, dgBudget, analyses, outVars,
                   auxVars, videoVars,
                   pineconeIdx>>

DeepgramUtteranceEnd ==
    /\ Running
    /\ dgOpen
    /\ pc["deepgram"] = "idle"
    /\ Len(dgSent) < dgBudget
    /\ dgPending' = END_OF_SPEECH
    /\ dgSent' = Append(dgSent, END_OF_SPEECH)
    /\ pc' = [pc EXCEPT !["deepgram"] = "send"]
    /\ UNCHANGED <<rev, sessionVars, chans, closed, panicked, stopVars,
                   handlerActive, dgOpen, dgBudget, dgConfidence, analyses,
                   outVars,
                   auxVars, videoVars,
                   pineconeIdx>>

\* c.TranscriptionChannel <- v : blocks while the mailbox is full, panics
\* once it is closed.
DeepgramSend ==
    /\ Running
    /\ pc["deepgram"] = "send"
    /\ IF "TranscriptionCh" \in closed
         THEN /\ panicked' = "send on closed channel"
              /\ UNCHANGED <<chans, pc>>
         ELSE /\ Len(chans["TranscriptionCh"]) < Cap("TranscriptionCh")
              /\ chans' = [chans EXCEPT !["TranscriptionCh"] = Append(@, dgPending)]
              /\ pc' = [pc EXCEPT !["deepgram"] = "idle"]
              /\ UNCHANGED panicked
    /\ UNCHANGED <<rev, sessionVars, closed, stopVars, handlerActive, dgVars,
                   analyses, outVars,
                   auxVars, videoVars,
                   pineconeIdx>>

\* part_004, Message: every accepted transcript goes to InterruptionChannel
\* first; an interim one goes nowhere else.
DeepgramInterim ==
    /\ Running
    /\ dgOpen
    /\ pc["deepgram"] = "idle"
    /\ dgInterrupts < MaxInterruptions
    /\ \E raw \in RawTranscripts, conf \in Confidences :
         /\ MessageForwards(raw, conf, TRUE)
         /\ dgPending' = TrimSpace(raw)
         /\ dgConfidence' = conf
    /\ dgInterrupts' = dgInterrupts + 1
    /\ pc' = [pc EXCEPT !["deepgram"] = "interrupt"]
    /\ UNCHANGED <<rev, sessionVars, chans, closed, panicked, stopVars,
                   handlerActive, dgOpen, dgSent, dgBudget, analyses, outVars,
                   LastActivity, sentinelTaken, videoVars,
                   pineconeIdx>>

\* c.InterruptionChannel <- transcript : blocking, panics once closed.
DeepgramSendInterruption ==
    /\ Running
    /\ pc["deepgram"] = "interrupt"
    /\ IF "InterruptionCh" \in closed
         THEN /\ panicked' = "send on closed channel"
              /\ UNCHANGED <<chans, pc>>
         ELSE /\ Len(chans["InterruptionCh"]) < Cap("InterruptionCh")
              /\ chans' = [chans EXCEPT !["InterruptionCh"] = Append(@, dgPending)]
              /\ pc' = [pc EXCEPT !["deepgram"] = "idle"]
              /\ UNCHANGED panicked
    /\ UNCHANGED <<rev, sessionVars, closed, stopVars, handlerActive, dgVars,
                   analyses, outVars, auxVars, videoVars,
                   pineconeIdx>>

\* ------------------------------------------------ IntentionHandler
\* parseIntentionResponse: a response is the set of phrases it contains.
ClearIntentionKeywords ==
    {"clear intention", "definite intention", "specific request",
     "clear request", "wants to", "needs to", "asks for", "requests",
     "commands"}

\* strings.Contains on phrases: a phrase contains itself and its parts.
Contains(response, phrase) ==
    \/ phrase \in response
    \/ phrase = "definite" /\ "definite intention" \in response
    \/ phrase = "clear intention" /\ "very clear intention" \in response
    \/ phrase = "very clear" /\ "very clear intention" \in response

ParsedHasIntention(response) ==
    \E k \in ClearIntentionKeywords : Contains(response, k)

ParsedConfidence(response) ==
    IF ParsedHasIntention(response)
      THEN IF Contains(response, "very clear") \/ Contains(response, "definite")
             THEN 90 ELSE 80
      ELSE 50

Responses == {{"weather"}, {"wants to"}, {"definite intention"}}
ModelConfidences == {65, 70, 75}

\* What AnalyzeTranscriptForIntention can hand back: intention_handler.go
\* parses the text of the answer, part_011 takes the fields of the answer.
AnalysisResults(i) ==
    IF rev = "models"
      THEN {[utt |-> i, HasClearIntention |-> ParsedHasIntention(r),
             Confidence |-> ParsedConfidence(r)] : r \in Responses}
      ELSE {[utt |-> i, HasClearIntention |-> b, Confidence |-> c] :
              b \in BOOLEAN, c \in ModelConfidences}

NextAnalysisId == 1 + Cardinality({i \in AnalysisIds : analyses[i].pc # "unused"})

\* getRelevantEnvironmentContext: the snippets the store matched, or an
\* error (the embedding or the query failed) and no snippets.
RetrievalOutcomes ==
    {[err |-> TRUE, contexts |-> <<>>],
     [err |-> FALSE, contexts |-> <<>>],
     [err |-> FALSE, contexts |-> <<"snippet">>]}

AnalyzeRetrieveAborting(i) ==
    /\ Running
    /\ analyses[i].pc = "retrieve"
    /\ \E o \in RetrievalOutcomes :
         analyses' = [analyses EXCEPT
                        ![i].retrieval = IF o.err THEN "failed" ELSE "ok",
                        ![i].environmentContext = IF o.err THEN @ ELSE o.contexts,
                        ![i].pc = IF o.err THEN "done" ELSE "call"]
    /\ UNCHANGED <<rev, sessionVars, chans, closed, panicked, pc, stopVars,
                   handlerActive, dgVars, outVars, auxVars, videoVars,
                   pineconeIdx>>

\* if h.pineconeIdx != nil { context, err := ...; if err != nil { log }
\* else { environmentContext = context } } : an error leaves the list as
\* it was declared, empty, and the run goes on to the OpenAI call.
AnalyzeRetrieve(i) ==
    /\ Running
    /\ analyses[i].pc = "retrieve"
    /\ \E o \in RetrievalOutcomes :
         analyses' = [analyses EXCEPT
                        ![i].retrieval = IF o.err THEN "failed" ELSE "ok",
                        ![i].environmentContext = IF o.err THEN @ ELSE o.contexts,
                        ![i].pc = "call"]
    /\ UNCHANGED <<rev, sessionVars, chans, closed, panicked, pc, stopVars,
                   handlerActive, dgVars, outVars, auxVars, videoVars,
                   pineconeIdx>>

AnalyzeCallFailsFallingThrough(i) ==
    /\ Running
    /\ analyses[i].pc = "call"
    /\ analyses' = [analyses EXCEPT
                      ![i].pc = IF rev = "models" THEN "deliver" ELSE "gate"]
    /\ UNCHANGED <<rev, sessionVars, chans, closed, panicked, pc, stopVars,
                   handlerActive, dgVars, outVars,
                   auxVars, videoVars,
                   pineconeIdx>>

\* analyzeIntention runs on a context of its own (context.Background with a
\* 30 s timeout).  The context expiring, or the OpenAI call failing, ends
\* the run without a result.
AnalyzeCallFails(i) ==
    /\ Running
    /\ analyses[i].pc = "call"
    /\ analyses' = [analyses EXCEPT ![i].pc = "done"]
    /\ UNCHANGED <<rev, sessionVars, chans, closed, panicked, pc, stopVars,
                   handlerActive, dgVars, outVars,
                   auxVars, videoVars,
                   pineconeIdx>>

AnalyzeCallReturns(i) ==
    /\ Running
    /\ analyses[i].pc = "call"
    /\ \E r \in AnalysisResults(i) :
         analyses' = [analyses EXCEPT
                        ![i].result = r,
                        ![i].pc = IF rev = "models" THEN "deliver" ELSE "gate"]
    /\ UNCHANGED <<rev, sessionVars, chans, closed, panicked, pc, stopVars,
                   handlerActive, dgVars, outVars,
                   auxVars, videoVars,
                   pineconeIdx>>

\* select { case h.session.IntentionCh <- result: default: }
AnalyzeDeliver(i) ==
    /\ Running
    /\ analyses[i].pc = "deliver"
    /\ IF "IntentionCh" \in closed
         THEN /\ panicked' = "send on closed channel"
              /\ UNCHANGED <<chans, analyses>>
         ELSE /\ chans' = SendTo(chans, "IntentionCh", analyses[i].result)
              /\ analyses' = [analyses EXCEPT ![i].pc = "gate"]
              /\ UNCHANGED panicked
    /\ UNCHANGED <<rev, sessionVars, closed, pc, stopVars, handlerActive,
                   dgVars, outVars,
                   auxVars, videoVars,
                   pineconeIdx>>

\* if hasIntention && confidence > 0.7 { go h.notifyOrchestrator(result) }
NotifyGateAtLeast(r) == r.HasClearIntention /\ r.Confidence >= NotifyThreshold

NotifyGate(r) == r.HasClearIntention /\ r.Confidence > NotifyThreshold

AnalyzeGate(i) ==
    /\ Running
    /\ analyses[i].pc = "gate"
    /\ notified' = IF NotifyGate(analyses[i].result)
                     THEN notified \cup {[utt |-> i, path |-> "analyzeIntention"]}
                     ELSE notified
    /\ analyses' = [analyses EXCEPT
                      ![i].pc = IF rev = "models" THEN "ws" ELSE "done",
                      ![i].notify = IF NotifyGate(analyses[i].result) THEN "go" ELSE @]
    /\ UNCHANGED <<rev, sessionVars, chans, closed, panicked, pc, stopVars,
                   handlerActive, dgVars, sentToClient,
                   auxVars, videoVars,
                   pineconeIdx>>

\* sendWebSocketMessage(h.session, "intention_analysis", result)
AnalyzeSendResult(i) ==
    /\ Running
    /\ analyses[i].pc = "ws"
    /\ sentToClient' = IF connOpen
                         THEN sentToClient \cup {[type |-> "intention_analysis", utt |-> i]}
                         ELSE sentToClient
    /\ analyses' = [analyses EXCEPT ![i].pc = "done"]
    /\ UNCHANGED <<rev, sessionVars, chans, closed, panicked, pc, stopVars,
                   handlerActive, dgVars, notified,
                   auxVars, videoVars,
                   pineconeIdx>>

\* notifyOrchestrator, a goroutine of its own: the payload takes
\* "transcript" from h.session.CurrentTranscript as it is when this runs.
NotifyOrchestrator(i) ==
    /\ Running
    /\ analyses[i].notify = "go"
    /\ analyses' = [analyses EXCEPT ![i].notify = "sent",
                                    ![i].payloadTranscript = CurrentTranscript]
    /\ UNCHANGED <<rev, sessionVars, chans, closed, panicked, pc, stopVars,
                   handlerActive, dgVars, outVars, auxVars, videoVars,
                   pineconeIdx>>

AnalyzeIntention(i) ==
    \/ AnalyzeCallFails(i)
    \/ AnalyzeCallReturns(i)
    \/ AnalyzeDeliver(i)
    \/ AnalyzeGate(i)
    \/ AnalyzeSendResult(i)

\* ------------------------------------------------- handleTranscript
\* for h.session.IsActive { transcript := <-h.session.TranscriptionCh ... }
AggregatorLoop ==
    /\ Running
    /\ pc["aggregator"] = "loop"
    /\ pc' = [pc EXCEPT !["aggregator"] = IF IsActive THEN "recv" ELSE "done"]
    /\ UNCHANGED <<rev, sessionVars, chans, closed, panicked, stopVars,
                   handlerActive, dgVars, analyses, outVars,
                   auxVars, videoVars,
                   pineconeIdx>>

AggregatorSentinelFlushing ==
    /\ Running
    /\ pc["aggregator"] = "recv"
    /\ CanRecv("TranscriptionCh")
    /\ RecvVal("TranscriptionCh") = SESSION_END
    /\ chans' = AfterRecv("TranscriptionCh")
    /\ pc' = [pc EXCEPT !["aggregator"] =
                IF CurrentTranscript # <<>> THEN "dispatch" ELSE "done"]
    /\ sentinelTaken' = sentinelTaken \cup {<<"aggregator", "TranscriptionCh">>}
    /\ UNCHANGED <<rev, sessionVars, closed, panicked, stopVars,
                   handlerActive, dgVars, analyses, outVars, LastActivity,
                   dgInterrupts, videoVars,
                   pineconeIdx>>

AggregatorSentinel ==
    /\ Running
    /\ pc["aggregator"] = "recv"
    /\ CanRecv("TranscriptionCh")
    /\ RecvVal("TranscriptionCh") = SESSION_END
    /\ chans' = AfterRecv("TranscriptionCh")
    /\ pc' = [pc EXCEPT !["aggregator"] = "done"]
    /\ sentinelTaken' = sentinelTaken \cup {<<"aggregator", "TranscriptionCh">>}
    /\ UNCHANGED <<rev, sessionVars, closed, panicked, stopVars,
                   handlerActive, dgVars, analyses, outVars, LastActivity,
                   dgInterrupts, videoVars,
                   pineconeIdx>>

AggregatorEndOfSpeechAlwaysDispatching ==
    /\ Running
    /\ pc["aggregator"] = "recv"
    /\ CanRecv("TranscriptionCh")
    /\ RecvVal("TranscriptionCh") = END_OF_SPEECH
    /\ chans' = AfterRecv("TranscriptionCh")
    /\ pc' = [pc EXCEPT !["aggregator"] = "dispatch"]
    /\ UNCHANGED <<rev, sessionVars, closed, panicked, stopVars,
                   handlerActive, dgVars, analyses, outVars, auxVars, videoVars,
                   pineconeIdx>>

\* transcript == "<END_OF_SPEECH>": a non-empty buffer is an utterance.
AggregatorEndOfSpeech ==
    /\ Running
    /\ pc["aggregator"] = "recv"
    /\ CanRecv("TranscriptionCh")
    /\ RecvVal("TranscriptionCh") = END_OF_SPEECH
    /\ chans' = AfterRecv("TranscriptionCh")
    /\ pc' = [pc EXCEPT !["aggregator"] =
                IF CurrentTranscript # <<>> THEN "dispatch" ELSE "loop"]
    /\ UNCHANGED <<rev, sessionVars, closed, panicked, stopVars,
                   handlerActive, dgVars, analyses, outVars, auxVars, videoVars,
                   pineconeIdx>>

UpdateContextReactivating ==
    /\ cancelled' = cancelled \cup {CurrentContext}
    /\ CurrentContext' = CurrentContext + 1
    /\ LastActivity' = LastActivity + 1
    /\ IsActive' = TRUE
    /\ UNCHANGED <<CurrentTranscript, chans, closed, connOpen>>

UpdateContextWithoutCancel ==
    /\ cancelled' = cancelled
    /\ CurrentContext' = CurrentContext + 1
    /\ LastActivity' = LastActivity + 1
    /\ UNCHANGED <<IsActive, CurrentTranscript, chans, closed, connOpen>>

UpdateContextClearingBuffer ==
    /\ cancelled' = cancelled \cup {CurrentContext}
    /\ CurrentContext' = CurrentContext + 1
    /\ LastActivity' = LastActivity + 1
    /\ CurrentTranscript' = <<>>
    /\ UNCHANGED <<IsActive, chans, closed, connOpen>>

\* UpdateContext: cancel the current context, install a fresh one, stamp
\* LastActivity.  Nothing else of the session is written.
UpdateContext ==
    /\ cancelled' = cancelled \cup {CurrentContext}
    /\ CurrentContext' = CurrentContext + 1
    /\ LastActivity' = LastActivity + 1
    /\ UNCHANGED <<IsActive, CurrentTranscript, chans, closed, connOpen>>

\* UpdateContext, then ProcessTranscript: part_011 runs analyzeIntention in
\* the caller, intention_handler.go in a goroutine of its own.
AggregatorDispatch ==
    /\ Running
    /\ pc["aggregator"] = "dispatch"
    /\ NextAnalysisId \in AnalysisIds
    /\ UpdateContext
    /\ analyses' = [analyses EXCEPT ![NextAnalysisId] =
                      [pc |-> IF pineconeIdx = "nil" THEN "call" ELSE "retrieve",
                       transcript |-> CurrentTranscript,
                       scope |-> CurrentContext + 1,
                       result |-> ZeroResult,
                       retrieval |-> "none",
                       environmentContext |-> <<>>,
                       notify |-> "none",
                       payloadTranscript |-> <<>>]]
    /\ pc' = [pc EXCEPT !["aggregator"] =
                IF rev = "models" THEN "reset" ELSE "sync"]
    /\ UNCHANGED <<rev, panicked, stopVars, handlerActive, dgVars, outVars,
                   sentinelTaken, dgInterrupts, videoVars,
                   pineconeIdx>>

\* if strings.TrimSpace(transcript) != "" { CurrentTranscript += transcript + " " }
AccumulateFiltered(buffer, transcript) ==
    IF TrimSpace(transcript) # <<>> THEN buffer \o transcript \o <<" ">> ELSE buffer

AggregatorFragment ==
    /\ Running
    /\ pc["aggregator"] = "recv"
    /\ CanRecv("TranscriptionCh")
    /\ RecvVal("TranscriptionCh") \notin {SESSION_END, END_OF_SPEECH}
    /\ chans' = AfterRecv("TranscriptionCh")
    /\ CurrentTranscript' = AccumulateFiltered(CurrentTranscript, RecvVal("TranscriptionCh"))
    /\ pc' = [pc EXCEPT !["aggregator"] = "loop"]
    /\ UNCHANGED <<rev, IsActive, CurrentContext, cancelled, connOpen, closed,
                   panicked, stopVars, handlerActive, dgVars, analyses, outVars,
                   auxVars, videoVars,
                   pineconeIdx>>

\* part_011: ProcessTranscript returns when analyzeIntention has returned.
AggregatorAnalysisReturns ==
    /\ Running
    /\ pc["aggregator"] = "sync"
    /\ analyses[NextAnalysisId - 1].pc = "done"
    /\ pc' = [pc EXCEPT !["aggregator"] = "reset"]
    /\ UNCHANGED <<rev, sessionVars, chans, closed, panicked, stopVars,
                   handlerActive, dgVars, analyses, outVars,
                   auxVars, videoVars,
                   pineconeIdx>>

\* h.session.CurrentTranscript = ""
AggregatorReset ==
    /\ Running
    /\ pc["aggregator"] = "reset"
    /\ CurrentTranscript' = <<>>
    /\ pc' = [pc EXCEPT !["aggregator"] = "loop"]
    /\ UNCHANGED <<rev, IsActive, CurrentContext, cancelled, connOpen, chans,
                   closed, panicked, stopVars, handlerActive, dgVars, analyses,
                   outVars,
                   auxVars, videoVars,
                   pineconeIdx>>

HandleTranscript ==
    \/ AggregatorLoop
    \/ AggregatorSentinel
    \/ AggregatorEndOfSpeech
    \/ AggregatorDispatch
    \/ AggregatorFragment
    \/ AggregatorAnalysisReturns
    \/ AggregatorReset

\* --------------------------------------------------- AudioHandler.run
\* for h.isActive { select { TranscriptionCh, InterruptionCh, Done() } }
AudioRunLoop ==
    /\ Running
    /\ pc["audioRun"] = "loop"
    /\ pc' = [pc EXCEPT !["audioRun"] =
                IF handlerActive["audio"] THEN "select" ELSE "done"]
    /\ UNCHANGED <<rev, sessionVars, chans, closed, panicked, stopVars,
                   handlerActive, dgVars, analyses, outVars,
                   auxVars, videoVars,
                   pineconeIdx>>

\* Either string mailbox: SESSION_END returns, anything else is only logged.
AudioRunReceiveIgnoringSentinel(c) ==
    /\ Running
    /\ pc["audioRun"] = "select"
    /\ CanRecv(c)
    /\ chans' = AfterRecv(c)
    /\ pc' = [pc EXCEPT !["audioRun"] = "loop"]
    /\ sentinelTaken' = IF RecvVal(c) = SESSION_END
                          THEN sentinelTaken \cup {<<"audioRun", c>>}
                          ELSE sentinelTaken
    /\ UNCHANGED <<rev, sessionVars, closed, panicked, stopVars,
                   handlerActive, dgVars, analyses, outVars, LastActivity,
                   dgInterrupts, videoVars,
                   pineconeIdx>>

AudioRunReceive(c) ==
    /\ Running
    /\ pc["audioRun"] = "select"
    /\ CanRecv(c)
    /\ chans' = AfterRecv(c)
    /\ pc' = [pc EXCEPT !["audioRun"] =
                IF RecvVal(c) = SESSION_END THEN "done" ELSE "loop"]
    /\ sentinelTaken' = IF RecvVal(c) = SESSION_END
                          THEN sentinelTaken \cup {<<"audioRun", c>>}
                          ELSE sentinelTaken
    /\ UNCHANGED <<rev, sessionVars, closed, panicked, stopVars,
                   handlerActive, dgVars, analyses, outVars, LastActivity,
                   dgInterrupts, videoVars,
                   pineconeIdx>>

AudioRunContextDone ==
    /\ Running
    /\ pc["audioRun"] = "select"
    /\ CurrentContext \in cancelled
    /\ pc' = [pc EXCEPT !["audioRun"] = "loop"]
    /\ UNCHANGED <<rev, sessionVars, chans, closed, panicked, stopVars,
                   handlerActive, dgVars, analyses, outVars,
                   auxVars, videoVars,
                   pineconeIdx>>

AudioRun ==
    \/ AudioRunLoop
    \/ AudioRunReceive("TranscriptionCh")
    \/ AudioRunReceive("InterruptionCh")
    \/ AudioRunContextDone

\* --------------------------------------------------- VideoHandler.run
\* part_009: for h.isActive { b64 := <-VideoAnalysisCh ; SESSION_END returns }
VideoRunLoop ==
    /\ Running
    /\ pc["videoRun"] = "loop"
    /\ pc' = [pc EXCEPT !["videoRun"] =
                IF handlerActive["video"] THEN "recv" ELSE "done"]
    /\ UNCHANGED <<rev, sessionVars, chans, closed, panicked, stopVars,
                   handlerActive, dgVars, analyses, outVars, auxVars, videoVars,
                   pineconeIdx>>

VideoRunSentinel ==
    /\ Running
    /\ pc["videoRun"] = "recv"
    /\ CanRecv("VideoAnalysisCh")
    /\ RecvVal("VideoAnalysisCh") = SESSION_END
    /\ chans' = AfterRecv("VideoAnalysisCh")
    /\ pc' = [pc EXCEPT !["videoRun"] = "done"]
    /\ sentinelTaken' = sentinelTaken \cup {<<"videoRun", "VideoAnalysisCh">>}
    /\ UNCHANGED <<rev, sessionVars, closed, panicked, stopVars,
                   handlerActive, dgVars, analyses, outVars, LastActivity,
                   dgInterrupts, videoVars,
                   pineconeIdx>>

VideoRun ==
    \/ VideoRunLoop
    \/ VideoRunSentinel

\* ------------------------------------------------- handleVideoData
\* A string is its tokens: a data-URI prefix, a run of base64 characters.
DataImagePrefixes == {"data:image/jpeg;base64,", "data:image/png;base64,"}

\* strings.HasPrefix(b64, "data:image")
HasDataImagePrefix(b64) == b64 # <<>> /\ Head(b64) \in DataImagePrefixes

\* if !strings.HasPrefix(b64, "data:image") { b64 = "data:image/jpeg;base64," + b64 }
DataURI(b64) ==
    IF HasDataImagePrefix(b64) THEN b64 ELSE <<"data:image/jpeg;base64,">> \o b64

\* msg.Data of a "video_data" message: a string or something else.
VideoPayloads ==
    {[isString |-> FALSE, text |-> <<>>],
     [isString |-> TRUE, text |-> <<"QUJD">>],
     [isString |-> TRUE, text |-> <<"data:image/png;base64,", "QUJD">>]}

\* What handleVideoData can put on VideoAnalysisCh.
ClientFrames == {DataURI(p.text) : p \in {q \in VideoPayloads : q.isString}}

\* The frame is echoed to the client and handed off with a select that has
\* a default branch.
HandleVideoData ==
    /\ Running
    /\ pc["reader"] = "read"
    /\ Len(videoFrames) < MaxFrames
    /\ \E data \in VideoPayloads :
         IF data.isString
           THEN /\ videoFrames' = Append(videoFrames, DataURI(data.text))
                /\ IF "VideoAnalysisCh" \in closed
                     THEN /\ panicked' = "send on closed channel"
                          /\ UNCHANGED chans
                     ELSE /\ chans' = SendTo(chans, "VideoAnalysisCh", DataURI(data.text))
                          /\ UNCHANGED panicked
           ELSE UNCHANGED <<videoFrames, chans, panicked>>
    /\ UNCHANGED <<rev, sessionVars, closed, pc, stopVars, handlerActive,
                   dgVars, analyses, outVars, auxVars, cadenceVars,
                   tickerPeriod, cycleFrequency, captures, pineconeIdx>>

NextCaptureId == 1 + Cardinality({k \in CaptureIds : captures[k].pc # "unused"})

\* base64.StdEncoding.DecodeString: an error for any character outside the
\* alphabet; the empty string decodes to no bytes.
Base64Runs == {"QUJD"}

DecodeStringFails(b64) == \E j \in 1..Len(b64) : b64[j] \notin Base64Runs

\* part_009, run: whatever is not SESSION_END is decoded; on an error the
\* loop continues, else go h.captureAndAnalyze(imgBytes).
VideoRunFrame ==
    /\ Running
    /\ pc["videoRun"] = "recv"
    /\ tickerPeriod = 0
    /\ CanRecv("VideoAnalysisCh")
    /\ RecvVal("VideoAnalysisCh") # SESSION_END
    /\ chans' = AfterRecv("VideoAnalysisCh")
    /\ IF DecodeStringFails(RecvVal("VideoAnalysisCh"))
         THEN UNCHANGED captures
         ELSE /\ NextCaptureId \in CaptureIds
              /\ captures' = [captures EXCEPT ![NextCaptureId] =
                                [pc |-> "capture", period |-> 0]]
    /\ pc' = [pc EXCEPT !["videoRun"] = "loop"]
    /\ UNCHANGED <<rev, sessionVars, closed, panicked, stopVars,
                   handlerActive, dgVars, analyses, outVars, auxVars,
                   cadenceVars, tickerPeriod, cycleFrequency, videoFrames,
                   pineconeIdx>>

\* ------------------------------------ VideoHandler.run with its ticker
\* video_handler.go: ticker := time.NewTicker(h.session.VideoFrequency),
\* once, before the loop; the session's field is not read again.
\* NewTicker panics on a duration that is not positive.
VideoRunStart ==
    /\ Running
    /\ pc["videoRun"] = "start"
    /\ IF VideoFrequency <= 0
         THEN /\ panicked' = "non-positive interval for NewTicker"
              /\ UNCHANGED <<tickerPeriod, cycleFrequency, pc>>
         ELSE /\ tickerPeriod' = VideoFrequency
              /\ cycleFrequency' = VideoFrequency
              /\ pc' = [pc EXCEPT !["videoRun"] = "loop"]
              /\ UNCHANGED panicked
    /\ UNCHANGED <<rev, sessionVars, chans, closed, stopVars,
                   handlerActive, dgVars, analyses, outVars, auxVars,
                   cadenceVars, captures, videoFrames,
                   pineconeIdx>>

\* case <-ticker.C: go h.captureAndAnalyze()
VideoRunTick ==
    /\ Running
    /\ pc["videoRun"] = "recv"
    /\ tickerPeriod # 0
    /\ NextCaptureId \in CaptureIds
    /\ captures' = [captures EXCEPT ![NextCaptureId] =
                      [pc |-> "capture", period |-> tickerPeriod]]
    /\ cycleFrequency' = VideoFrequency
    /\ pc' = [pc EXCEPT !["videoRun"] = "loop"]
    /\ UNCHANGED <<rev, sessionVars, chans, closed, panicked, stopVars,
                   handlerActive, dgVars, analyses, outVars, auxVars,
                   cadenceVars, tickerPeriod, videoFrames,
                   pineconeIdx>>

\* case videoAnalysis := <-h.session.VideoAnalysisCh: anything but
\* SESSION_END is left to the orchestrator, that is, discarded.
VideoRunAnalysis ==
    /\ Running
    /\ pc["videoRun"] = "recv"
    /\ tickerPeriod # 0
    /\ CanRecv("VideoAnalysisCh")
    /\ RecvVal("VideoAnalysisCh") # SESSION_END
    /\ chans' = AfterRecv("VideoAnalysisCh")
    /\ pc' = [pc EXCEPT !["videoRun"] = "loop"]
    /\ UNCHANGED <<rev, sessionVars, closed, panicked, stopVars,
                   handlerActive, dgVars, analyses, outVars, auxVars,
                   videoVars,
                   pineconeIdx>>

\* captureAndAnalyze (video_handler.go): a context of its own, 30 s from
\* context.Background().  TryCapture failing, the context expiring or the
\* OpenAI call failing ends the run with no result.
CaptureFails(k) ==
    /\ Running
    /\ captures[k].pc = "capture"
    /\ captures' = [captures EXCEPT ![k].pc = "done"]
    /\ UNCHANGED <<rev, sessionVars, chans, closed, panicked, pc, stopVars,
                   handlerActive, dgVars, analyses, outVars, auxVars,
                   cadenceVars, tickerPeriod, cycleFrequency, videoFrames,
                   pineconeIdx>>

CaptureReturns(k) ==
    /\ Running
    /\ captures[k].pc = "capture"
    /\ captures' = [captures EXCEPT ![k].pc = "send"]
    /\ UNCHANGED <<rev, sessionVars, chans, closed, panicked, pc, stopVars,
                   handlerActive, dgVars, analyses, outVars, auxVars,
                   cadenceVars, tickerPeriod, cycleFrequency, videoFrames,
                   pineconeIdx>>

VideoAnalysisText == <<"analysis">>

\* select { case h.session.VideoAnalysisCh <- analysis: default: }
CaptureSend(k) ==
    /\ Running
    /\ captures[k].pc = "send"
    /\ IF "VideoAnalysisCh" \in closed
         THEN /\ panicked' = "send on closed channel"
              /\ UNCHANGED <<chans, captures>>
         ELSE /\ chans' = SendTo(chans, "VideoAnalysisCh", VideoAnalysisText)
              /\ captures' = [captures EXCEPT ![k].pc = "done"]
              /\ UNCHANGED panicked
    /\ UNCHANGED <<rev, sessionVars, closed, pc, stopVars, handlerActive,
                   dgVars, analyses, outVars, auxVars, cadenceVars,
                   tickerPeriod, cycleFrequency, videoFrames,
                   pineconeIdx>>

CaptureAndAnalyze(k) ==
    \/ CaptureFails(k)
    \/ CaptureReturns(k)
    \/ CaptureSend(k)

\* ------------------------------------------------ handleConfigMessage
\* A duration string is its terms, each a number and a unit: "1m30s" is
\* <<[n |-> 1, unit |-> "m"], [n |-> 30, unit |-> "s"]>>.
UnitMilliseconds(u) ==
    CASE u = "ms" -> 1
      [] u = "s" -> 1000
      [] u = "m" -> 60000
      [] OTHER -> 0

\* time.ParseDuration: an error for the empty string and for an unknown
\* unit, else the sum of the terms.
ParseDurationFails(text) ==
    \/ text = <<>>
    \/ \E j \in 1..Len(text) : UnitMilliseconds(text[j].unit) = 0

RECURSIVE ParseDuration(_)
ParseDuration(text) ==
    IF text = <<>> THEN 0
    ELSE Head(text).n * UnitMilliseconds(Head(text).unit) + ParseDuration(Tail(text))

\* "5s", "1m30s", "0s", "-5s" and "5sec", which is no duration.
DurationTexts ==
    {<<[n |-> 5, unit |-> "s"]>>,
     <<[n |-> 1, unit |-> "m"], [n |-> 30, unit |-> "s"]>>,
     <<[n |-> 0, unit |-> "s"]>>,
     <<[n |-> -5, unit |-> "s"]>>,
     <<[n |-> 5, unit |-> "sec"]>>}

\* data.(map[string]interface{}) and its two keys; a key can be missing
\* or hold something that is not a string.
ConfigSettings ==
    {[isString |-> FALSE, text |-> <<>>]} \cup
    {[isString |-> TRUE, text |-> t] : t \in DurationTexts}

ConfigMessages ==
    {[isMap |-> FALSE, video |-> [isString |-> FALSE, text |-> <<>>],
      audio |-> [isString |-> FALSE, text |-> <<>>]]} \cup
    {[isMap |-> TRUE, video |-> v, audio |-> a] :
       v \in ConfigSettings,
       a \in {c \in ConfigSettings : c.text \in {<<>>, <<[n |-> 5, unit |-> "s"]>>}}}

ConfiguredFrequencyIgnoringError(setting, current) ==
    IF setting.isString
      THEN IF ParseDurationFails(setting.text) THEN 0 ELSE ParseDuration(setting.text)
      ELSE current

\* if freqStr, ok := v.(string); ok { if d, err := time.ParseDuration(freqStr);
\* err == nil { rs.VideoFrequency = d } } : the value is not looked at.
ConfiguredFrequency(setting, current) ==
    IF setting.isString /\ ~ParseDurationFails(setting.text)
      THEN ParseDuration(setting.text)
      ELSE current

\* case "config": the two fields are assigned and "config_updated" is
\* written to the client; nothing else of the session is touched.
HandleConfigMessage(data) ==
    /\ Running
    /\ pc["reader"] = "read"
    /\ IF data.isMap
         THEN /\ VideoFrequency' = ConfiguredFrequency(data.video, VideoFrequency)
              /\ AudioFrequency' = ConfiguredFrequency(data.audio, AudioFrequency)
              /\ sentToClient' =
                   IF connOpen
                     THEN sentToClient \cup {[type |-> "config_updated", utt |-> 0]}
                     ELSE sentToClient
         ELSE UNCHANGED <<VideoFrequency, AudioFrequency, sentToClient>>
    /\ UNCHANGED <<rev, sessionVars, chans, closed, panicked, pc, stopVars,
                   handlerActive, dgVars, analyses, notified, auxVars,
                   tickerPeriod, cycleFrequency, captures, videoFrames,
                   pineconeIdx>>

\* ----------------------------------------------- IntentionHandler.run
IntentionRunLoop ==
    /\ Running
    /\ pc["intentionRun"] = "loop"
    /\ pc' = [pc EXCEPT !["intentionRun"] =
                IF handlerActive["intention"] THEN "select" ELSE "done"]
    /\ UNCHANGED <<rev, sessionVars, chans, closed, panicked, stopVars,
                   handlerActive, dgVars, analyses, outVars,
                   auxVars, videoVars,
                   pineconeIdx>>

\* case intentionResult := <-h.session.IntentionCh: logged, nothing else.
IntentionRunReceive ==
    /\ Running
    /\ pc["intentionRun"] = "select"
    /\ CanRecv("IntentionCh")
    /\ chans' = AfterRecv("IntentionCh")
    /\ pc' = [pc EXCEPT !["intentionRun"] = "loop"]
    /\ UNCHANGED <<rev, sessionVars, closed, panicked, stopVars,
                   handlerActive, dgVars, analyses, outVars,
                   auxVars, videoVars,
                   pineconeIdx>>

\* part_011 has no select here: it sleeps a second and tests isActive again.
IntentionRunContextDone ==
    /\ Running
    /\ pc["intentionRun"] = "select"
    /\ rev = "handlers" \/ CurrentContext \in cancelled
    /\ pc' = [pc EXCEPT !["intentionRun"] = "loop"]
    /\ UNCHANGED <<rev, sessionVars, chans, closed, panicked, stopVars,
                   handlerActive, dgVars, analyses, outVars,
                   auxVars, videoVars,
                   pineconeIdx>>

IntentionRun ==
    \/ IntentionRunLoop
    \/ IntentionRunReceive
    \/ IntentionRunContextDone

\* ------------------------------------------- handleSessionOrchestrator
\* for session.IsActive { select { ... } } ; cleanup after the loop.
CoordinatorLoop ==
    /\ Running
    /\ pc["coordinator"] = "loop"
    /\ pc' = [pc EXCEPT !["coordinator"] = IF IsActive THEN "select" ELSE "cleanup"]
    /\ UNCHANGED <<rev, sessionVars, chans, closed, panicked, stopVars,
                   handlerActive, dgVars, analyses, outVars,
                   auxVars, videoVars,
                   pineconeIdx>>

\* session.CurrentTranscript += transcript + " "  (no test of the text)
AccumulateUnfiltered(buffer, transcript) == buffer \o transcript \o <<" ">>

CoordinatorTranscript(buffer, transcript) ==
    IF transcript = END_OF_SPEECH
      THEN <<>>
      ELSE AccumulateUnfiltered(buffer, transcript)

CoordinatorTranscription ==
    /\ Running
    /\ pc["coordinator"] = "select"
    /\ CanRecv("TranscriptionCh")
    /\ chans' = AfterRecv("TranscriptionCh")
    /\ IF RecvVal("TranscriptionCh") = SESSION_END
         THEN /\ pc' = [pc EXCEPT !["coordinator"] = "done"]
              /\ sentinelTaken' =
                   sentinelTaken \cup {<<"coordinator", "TranscriptionCh">>}
              /\ UNCHANGED CurrentTranscript
         ELSE /\ pc' = [pc EXCEPT !["coordinator"] = "loop"]
              /\ CurrentTranscript' =
                   CoordinatorTranscript(CurrentTranscript, RecvVal("TranscriptionCh"))
              /\ UNCHANGED sentinelTaken
    /\ UNCHANGED <<rev, IsActive, CurrentContext, cancelled, connOpen, closed,
                   panicked, stopVars, handlerActive, dgVars, analyses, outVars,
                   LastActivity, dgInterrupts, videoVars,
                   pineconeIdx>>

\* if intentionResult.HasClearIntention { go triggerOrchestrator(...) }
CoordinatorTriggers(r) == r.HasClearIntention

CoordinatorIntention ==
    /\ Running
    /\ pc["coordinator"] = "select"
    /\ CanRecv("IntentionCh")
    /\ chans' = AfterRecv("IntentionCh")
    /\ notified' = IF CoordinatorTriggers(RecvVal("IntentionCh"))
                     THEN notified \cup {[utt |-> RecvVal("IntentionCh").utt,
                                          path |-> "coordinator"]}
                     ELSE notified
    /\ sentToClient' = IF connOpen
                         THEN sentToClient \cup {[type |-> "intention_result",
                                                  utt |-> RecvVal("IntentionCh").utt]}
                         ELSE sentToClient
    /\ pc' = [pc EXCEPT !["coordinator"] = "loop"]
    /\ UNCHANGED <<rev, sessionVars, closed, panicked, stopVars,
                   handlerActive, dgVars, analyses,
                   auxVars, videoVars,
                   pineconeIdx>>

CoordinatorVideoAnalysis ==
    /\ Running
    /\ pc["coordinator"] = "select"
    /\ CanRecv("VideoAnalysisCh")
    /\ chans' = AfterRecv("VideoAnalysisCh")
    /\ IF RecvVal("VideoAnalysisCh") = SESSION_END
         THEN /\ pc' = [pc EXCEPT !["coordinator"] = "done"]
              /\ sentinelTaken' =
                   sentinelTaken \cup {<<"coordinator", "VideoAnalysisCh">>}
              /\ UNCHANGED sentToClient
         ELSE /\ pc' = [pc EXCEPT !["coordinator"] = "loop"]
              /\ UNCHANGED <<sentToClient, sentinelTaken>>
    /\ UNCHANGED <<rev, sessionVars, closed, panicked, stopVars,
                   handlerActive, dgVars, analyses, notified, LastActivity,
                   dgInterrupts, videoVars,
                   pineconeIdx>>

\* case <-time.After(30 * time.Second): heartbeat to the client
CoordinatorHeartbeat ==
    /\ Running
    /\ pc["coordinator"] = "select"
    /\ pc' = [pc EXCEPT !["coordinator"] = "loop"]
    /\ UNCHANGED <<rev, sessionVars, chans, closed, panicked, stopVars,
                   handlerActive, dgVars, analyses, outVars,
                   auxVars, videoVars,
                   pineconeIdx>>

\* audioHandler.Close(); videoHandler.Close(); intentionHandler.Close()
CoordinatorCleanup ==
    /\ Running
    /\ pc["coordinator"] = "cleanup"
    /\ handlerActive' = [h \in Handlers |-> FALSE]
    /\ dgOpen' = FALSE
    /\ pc' = [pc EXCEPT !["coordinator"] = "done"]
    /\ UNCHANGED <<rev, sessionVars, chans, closed, panicked, stopVars,
                   dgPending, dgSent, dgBudget, dgConfidence, analyses, outVars,
                   auxVars, videoVars,
                   pineconeIdx>>

HandleSessionOrchestrator ==
    \/ CoordinatorLoop
    \/ CoordinatorTranscription
    \/ CoordinatorIntention
    \/ CoordinatorVideoAnalysis
    \/ CoordinatorHeartbeat
    \/ CoordinatorCleanup

ListenWebsocketMessages ==
    \/ ReaderStopCommand
    \/ ReaderDisconnect
    \/ ReaderBroadcast
    \/ ReaderConfirm

DeepgramCallback ==
    \/ DeepgramMessage
    \/ DeepgramUtteranceEnd
    \/ DeepgramSend

\* The session as wired: the websocket reader is the one caller of Stop().
Next ==
    \/ Stop("reader")
    \/ ListenWebsocketMessages
    \/ DeepgramCallback
    \/ HandleTranscript
    \/ \E i \in AnalysisIds : AnalyzeIntention(i)
    \/ AudioRun
    \/ IntentionRun
    \/ HandleSessionOrchestrator

Spec == Init /\ [][Next]_vars

\* Shutdown: the reader and a second caller, through Close(), against the
\* loops that drain the mailboxes.
NextStop ==
    \/ \E t \in Stoppers : Stop(t)
    \/ Close
    \/ ListenWebsocketMessages
    \/ AudioRun
    \/ HandleSessionOrchestrator

SpecStop == Init /\ [][NextStop]_vars

\* Speech: utterances arriving one after the other, no shutdown.
NextUtterances ==
    \/ DeepgramCallback
    \/ AggregatorLoop
    \/ AggregatorEndOfSpeech
    \/ AggregatorDispatch
    \/ AggregatorFragment
    \/ AggregatorAnalysisReturns
    \/ AggregatorReset
    \/ \E i \in AnalysisIds : AnalyzeIntention(i)
    \/ AudioRunLoop
    \/ AudioRunReceive("TranscriptionCh")

SpecUtterances == InitUtterances /\ [][NextUtterances]_vars

\* Analyses delivering on IntentionCh while nobody receives from it.
NextBackpressure ==
    \/ DeepgramCallback
    \/ AggregatorLoop
    \/ AggregatorEndOfSpeech
    \/ AggregatorDispatch
    \/ AggregatorFragment
    \/ AggregatorReset
    \/ \E i \in AnalysisIds : AnalyzeIntention(i)

SpecBackpressure == InitBackpressure /\ [][NextBackpressure]_vars

\* Shutdown against a mailbox that is full: the reader, Stop() and the
\* speech-to-text callback, nobody receiving.
NextFull ==
    \/ Stop("reader")
    \/ ListenWebsocketMessages
    \/ DeepgramCallback

SpecFull == InitFull /\ [][NextFull]_vars

\* Shutdown as the tasks of the session see it: no speech arrives.
NextShutdown ==
    \/ Stop("reader")
    \/ ListenWebsocketMessages
    \/ AggregatorLoop
    \/ AggregatorSentinel
    \/ AggregatorFragment
    \/ AudioRun
    \/ VideoRun
    \/ IntentionRun
    \/ HandleSessionOrchestrator

SpecShutdown == Init /\ [][NextShutdown]_vars

\* The Go scheduler runs every goroutine that can run, and a select picks
\* at random among the cases that are ready, so a case that is ready again
\* and again is taken.
FairShutdown ==
    /\ SpecShutdown
    /\ WF_vars(Stop("reader"))
    /\ WF_vars(ListenWebsocketMessages)
    /\ WF_vars(AggregatorLoop \/ AggregatorSentinel \/ AggregatorFragment)
    /\ WF_vars(AudioRun)
    /\ SF_vars(AudioRunReceive("TranscriptionCh"))
    /\ SF_vars(AudioRunReceive("InterruptionCh"))
    /\ WF_vars(VideoRun)
    /\ WF_vars(IntentionRun)
    /\ WF_vars(HandleSessionOrchestrator)

\* Interim transcripts arriving as interruptions while speech arrives.
NextInterruption ==
    \/ DeepgramCallback
    \/ DeepgramInterim
    \/ DeepgramSendInterruption
    \/ AudioRunLoop
    \/ AudioRunReceive("TranscriptionCh")
    \/ AudioRunReceive("InterruptionCh")

SpecInterruption == InitUtterances /\ [][NextInterruption]_vars

\* The capture cadence: the reader handling config messages, the video
\* handler of video_handler.go with its ticker, the captures it starts.
InitCadence ==
    /\ rev = "handlers"
    /\ InitSessionAt(MaxDeepgramEvents, EmptyMailboxes, "start", "nil")

NextCadence ==
    \/ \E data \in ConfigMessages : HandleConfigMessage(data)
    \/ ListenWebsocketMessages
    \/ Stop("reader")
    \/ VideoRunStart
    \/ VideoRunLoop
    \/ VideoRunTick
    \/ VideoRunAnalysis
    \/ VideoRunSentinel
    \/ \E k \in CaptureIds : CaptureAndAnalyze(k)

SpecCadence == InitCadence /\ [][NextCadence]_vars

\* Pushed frames: the reader handing frames to the video handler of
\* part_009, on a session whose VideoAnalysisCh is empty, or has filled up
\* with frames the handler has not come to yet.
PendingFrames(k) == [j \in 1..k |-> DataURI(<<"QUJD">>)]

InitVideo ==
    /\ rev = "handlers"
    /\ \E k \in {0, StringChCap - 1, StringChCap} :
         InitSession(MaxDeepgramEvents,
                     [EmptyMailboxes EXCEPT !["VideoAnalysisCh"] = PendingFrames(k)])

NextVideo ==
    \/ HandleVideoData
    \/ ListenWebsocketMessages
    \/ Stop("reader")
    \/ VideoRunLoop
    \/ VideoRunSentinel
    \/ VideoRunFrame
    \/ \E k \in CaptureIds : CaptureAndAnalyze(k)

SpecVideo == InitVideo /\ [][NextVideo]_vars

\* Speech, the analyses and the notifications they start.
NextNotify ==
    \/ DeepgramCallback
    \/ AggregatorLoop
    \/ AggregatorEndOfSpeech
    \/ AggregatorDispatch
    \/ AggregatorFragment
    \/ AggregatorAnalysisReturns
    \/ AggregatorReset
    \/ \E i \in AnalysisIds : AnalyzeIntention(i) \/ NotifyOrchestrator(i)

SpecNotify == InitUtterances /\ [][NextNotify]_vars

\* Speech on a session whose intention handler may hold a connection to
\* the similarity store.
InitRetrieval ==
    \E index \in {"nil", "conn"} :
        InitSessionAt(MaxUtteranceEvents, EmptyMailboxes, "loop", index)

NextRetrieval ==
    \/ DeepgramCallback
    \/ AggregatorLoop
    \/ AggregatorEndOfSpeech
    \/ AggregatorDispatch
    \/ AggregatorFragment
    \/ AggregatorAnalysisReturns
    \/ AggregatorReset
    \/ \E i \in AnalysisIds : AnalyzeRetrieve(i) \/ AnalyzeIntention(i)

SpecRetrieval == InitRetrieval /\ [][NextRetrieval]_vars

\* ====================================================== claims C1 .. C10

\* C1: when two tasks call Stop() on the same active session, the shutdown
\* body runs at most once, so no mailbox is closed a second time.
C1_ShutdownBodyRunsOnce ==
    calledActive = Stoppers =>
        /\ stopBodies <= 1
        /\ panicked # "close of closed channel"

\* C2: Stop() entered on a session that an earlier Stop() has already shut
\* down returns at once: it runs no shutdown step, closes nothing a second
\* time and leaves the session's state as it was.
C2_StopOnStoppedSessionIsNoOp ==
    [][\A t \in Stoppers :
         (/\ pc[t] = "Stop"
          /\ pc'[t] # "Stop"
          /\ ~IsActive
          /\ closed # {}
          /\ \E u \in Stoppers \ {t} : pc[u] \in {"confirm", "done"})
         => /\ pc'[t] = StopReturn(t)
            /\ stopBodies' = stopBodies]_vars

\* C3: no producer (the speech-to-text callback, an intention analysis)
\* ever attempts a send on a mailbox that Stop() has closed; in Go such an
\* attempt is the panic "send on closed channel".
C3_NoSendOnClosedMailbox == panicked # "send on closed channel"

\* C4: once a newer utterance has replaced the context an analysis was
\* started under, the result of that analysis is delivered nowhere: not to
\* IntentionCh, not to the orchestrator, not to the client.
C4_SupersededResultNotDelivered ==
    [][\A i \in AnalysisIds :
         LET inMailbox(ch) == \E k \in 1..Len(ch) : ch[k].utt = i
         IN  (analyses[i].pc # "unused" /\ analyses[i].scope < CurrentContext)
             => /\ inMailbox(chans'["IntentionCh"]) => inMailbox(chans["IntentionCh"])
                /\ \A n \in notified' \ notified : n.utt # i
                /\ \A m \in sentToClient' \ sentToClient : m.utt # i]_vars

\* C5: when the callback has forwarded fragments f1 .. fn and then one end
\* marker, and the aggregator has worked through the mailbox, exactly one
\* utterance has been dispatched, its text is every fragment followed by one
\* space, in order, and the buffer is empty.
C5_UtteranceIsAllFragments ==
    LET n == Len(dgSent) - 1
        joined == IF n = 1 THEN dgSent[1] \o <<" ">>
                  ELSE IF n = 2 THEN dgSent[1] \o <<" ">> \o dgSent[2] \o <<" ">>
                  ELSE dgSent[1] \o <<" ">> \o dgSent[2] \o <<" ">> \o dgSent[3] \o <<" ">>
    IN  (/\ n \in 1..3
         /\ dgSent[n + 1] = END_OF_SPEECH
         /\ \A k \in 1..n : dgSent[k] # END_OF_SPEECH
         /\ pc["deepgram"] = "idle"
         /\ chans["TranscriptionCh"] = <<>>
         /\ pc["aggregator"] \in {"loop", "recv"})
        => /\ analyses[1].pc # "unused"
           /\ analyses[1].transcript = joined
           /\ analyses[2].pc = "unused"
           /\ CurrentTranscript = <<>>

\* C6: with IntentionCh at its capacity of 10 and nobody receiving, a
\* delivery attempt is never blocked, completes by dropping its result, and
\* leaves in the mailbox the same results in the same order; the mailbox
\* never holds more than 10.
C6_FullMailboxDropsWithoutBlocking ==
    [][LET old == chans["IntentionCh"]
           new == chans'["IntentionCh"]
       IN  /\ Len(new) <= IntentionChCap
           /\ Len(old) <= Len(new)
           /\ SubSeq(new, 1, Len(old)) = old
           /\ \A i \in AnalysisIds :
                analyses[i].pc = "deliver" =>
                  /\ ENABLED AnalyzeDeliver(i)
                  /\ (Len(old) = IntentionChCap /\ analyses'[i].pc # "deliver")
                       => (new = old /\ analyses'[i].pc = "gate")]_vars

\* An analysis has delivered the tenth result and a later analysis has come
\* back with a result, tried to deliver it and gone on without it.
C6_Witness ==
    /\ Len(chans["IntentionCh"]) = IntentionChCap
    /\ chans["IntentionCh"][IntentionChCap].utt \in AnalysisIds
    /\ \E i \in AnalysisIds :
         /\ analyses[i].pc \in {"gate", "ws", "done"}
         /\ analyses[i].result.utt = i
         /\ \A k \in 1..Len(chans["IntentionCh"]) : chans["IntentionCh"][k].utt # i

\* C7: the orchestrator is notified of a result exactly when the result has
\* a clear intention and a confidence above 0.7, on the analysis path and
\* on the coordinator's path alike.
C7_NotifiedIffClearAndConfident ==
    [][LET passes(r) == r.HasClearIntention /\ r.Confidence > NotifyThreshold
       IN  /\ \A n \in notified' \ notified : passes(analyses[n.utt].result)
           /\ \A i \in AnalysisIds :
                (analyses[i].pc = "gate" /\ analyses'[i].pc # "gate"
                 /\ passes(analyses[i].result))
                => [utt |-> i, path |-> "analyzeIntention"] \in notified'
           /\ (/\ pc["coordinator"] = "select"
               /\ chans["IntentionCh"] # <<>>
               /\ chans'["IntentionCh"] = Tail(chans["IntentionCh"])
               /\ pc'["coordinator"] = "loop"
               /\ passes(Head(chans["IntentionCh"])))
              => [utt |-> Head(chans["IntentionCh"]).utt, path |-> "coordinator"]
                   \in notified']_vars

\* Both paths have notified the orchestrator of the same confident result.
C7_Witness ==
    \E i \in AnalysisIds :
        /\ analyses[i].result.HasClearIntention
        /\ analyses[i].result.Confidence > NotifyThreshold
        /\ [utt |-> i, path |-> "analyzeIntention"] \in notified
        /\ [utt |-> i, path |-> "coordinator"] \in notified

\* C8: a fragment that is empty or only whitespace, taken from
\* TranscriptionCh by the aggregator or by the coordinator, leaves the
\* transcript buffer as it was and starts no analysis.
C8_BlankFragmentLeavesBuffer ==
    [][(/\ CanRecv("TranscriptionCh")
        /\ TrimSpace(RecvVal("TranscriptionCh")) = <<>>
        /\ \/ pc["aggregator"] = "recv" /\ pc'["aggregator"] # "recv"
           \/ (/\ pc["coordinator"] = "select"
               /\ pc'["coordinator"] # "select"
               /\ chans'["IntentionCh"] = chans["IntentionCh"]
               /\ chans'["VideoAnalysisCh"] = chans["VideoAnalysisCh"]))
       => (CurrentTranscript' = CurrentTranscript /\ analyses' = analyses)]_vars

\* C9: once IsActive has been cleared it is never set again, whatever else
\* runs on the session afterwards.
C9_InactiveIsFinal == [][~IsActive => ~IsActive']_vars

\* Stop() has returned, and UpdateContext has run on the stopped session:
\* the context Stop() cancelled has been replaced by a live one.
C9_Witness ==
    /\ ~IsActive
    /\ pc["reader"] \in {"confirm", "done"}
    /\ CurrentContext = 1
    /\ cancelled = {0}

\* C10: when Stop() broadcasts while no mailbox is full, SESSION_END is the
\* value it leaves last on every mailbox of the session, IntentionCh
\* included where the session has one.
C10_SentinelOnEveryMailbox ==
    [][\A t \in Stoppers :
         (/\ pc[t] = "Stop_send"
          /\ pc'[t] = "Stop_cancel"
          /\ \A c \in Chans : Len(chans[c]) < Cap(c))
         => \A c \in ClosedByStop :
              /\ chans'[c] # <<>>
              /\ chans'[c][Len(chans'[c])] = SESSION_END]_vars

\* ===================================================== claims C11 .. C20

\* C11: Stop() never waits for room in a mailbox: each of its steps can be
\* taken whenever it is reached, and a broadcast that finds a mailbox at
\* capacity leaves that mailbox exactly as it was.
C11_FullMailboxIsSkipped ==
    /\ [](\A t \in Stoppers :
            (Running /\ pc[t] \in {"Stop", "Stop_set", "Stop_send", "Stop_cancel",
                                    "Stop_close", "Stop_conn"})
            => ENABLED Stop(t))
    /\ [][\A t \in Stoppers :
            (pc[t] = "Stop_send" /\ pc'[t] = "Stop_cancel")
            => \A c \in StringChans :
                 Len(chans[c]) = Cap(c) => chans'[c] = chans[c]]_vars

\* Stop() has returned and a mailbox still holds the hundred values it held
\* before, with no sentinel among them.
C11_Witness ==
    /\ pc["reader"] \in {"confirm", "done"}
    /\ ~connOpen
    /\ \E c \in StringChans : chans[c] = Pending(StringChCap)

\* C12: the connection is closed only after every task started for the
\* session has exited.
C12_ConnectionClosedAfterTasksExit ==
    ~connOpen => \A t \in Loops : pc[t] \in {"absent", "done"}

\* C13: once the reader has started the shutdown, every task started for
\* the session eventually exits.
C13_TasksEventuallyExit ==
    (readerPath # "none") ~> (\A t \in Loops : pc[t] \in {"absent", "done"})

\* C14: a task that has received SESSION_END from a mailbox has returned,
\* and a task that has returned takes no further step.
C14_NoReceiveAfterSentinel ==
    /\ [](\A e \in sentinelTaken : pc[e[1]] = "done")
    /\ [][\A t \in Loops : pc[t] = "done" => pc'[t] = "done"]_vars

\* Every task that reads a string mailbox has received a sentinel from one.
C14_Witness ==
    /\ <<"aggregator", "TranscriptionCh">> \in sentinelTaken
    /\ <<"audioRun", "InterruptionCh">> \in sentinelTaken
    /\ <<"videoRun", "VideoAnalysisCh">> \in sentinelTaken
    /\ <<"coordinator", "TranscriptionCh">> \in sentinelTaken

\* C15: once SESSION_END has been received from a mailbox, nothing more is
\* sent on that mailbox.
C15_NoSendAfterSentinelConsumed ==
    [][\A e \in sentinelTaken : Len(chans'[e[2]]) <= Len(chans[e[2]])]_vars

\* C16: the session has one current context, and every context that has
\* been replaced was cancelled no later than its replacement was installed.
C16_ReplacedScopeIsCancelled ==
    /\ [](\A g \in 0..(CurrentContext - 1) : g \in cancelled)
    /\ [][CurrentContext' # CurrentContext
            => /\ CurrentContext' = CurrentContext + 1
               /\ CurrentContext \in cancelled']_vars

\* Two utterances have each replaced the context.
C16_Witness == CurrentContext = 2 /\ cancelled = {0, 1}

\* C17: when AudioHandler.run receives a value other than SESSION_END from
\* InterruptionCh, the current context is cancelled and replaced and
\* LastActivity is stamped.
C17_InterruptionRotatesScope ==
    [][(/\ pc["audioRun"] = "select"
        /\ pc'["audioRun"] # "select"
        /\ chans["InterruptionCh"] # <<>>
        /\ Head(chans["InterruptionCh"]) # SESSION_END
        /\ chans'["InterruptionCh"] = Tail(chans["InterruptionCh"]))
       => /\ CurrentContext' = CurrentContext + 1
          /\ CurrentContext \in cancelled'
          /\ LastActivity' > LastActivity]_vars

\* C18: a step that replaces the context leaves IsActive, the transcript
\* buffer, the mailboxes, the connection and the two cadences as they
\* were; it stamps LastActivity.
C18_RotationChangesOnlyScope ==
    [][CurrentContext' # CurrentContext
        => /\ IsActive' = IsActive
           /\ CurrentTranscript' = CurrentTranscript
           /\ chans' = chans
           /\ closed' = closed
           /\ connOpen' = connOpen
           /\ VideoFrequency' = VideoFrequency
           /\ AudioFrequency' = AudioFrequency
           /\ LastActivity' > LastActivity]_vars

\* The context has just been replaced while the buffer held an utterance
\* and the mailbox held the next fragment.
C18_Witness ==
    /\ CurrentContext >= 1
    /\ LastActivity = CurrentContext
    /\ pc["aggregator"] \in {"reset", "sync"}
    /\ CurrentTranscript # <<>>
    /\ chans["TranscriptionCh"] # <<>>

\* C19: the aggregator, receiving SESSION_END, returns; it starts no
\* analysis and does not touch the context, whatever the buffer holds.
C19_SentinelDropsPartialBuffer ==
    [][(/\ pc["aggregator"] = "recv"
        /\ pc'["aggregator"] # "recv"
        /\ CanRecv("TranscriptionCh")
        /\ RecvVal("TranscriptionCh") = SESSION_END)
       => /\ pc'["aggregator"] = "done"
          /\ analyses' = analyses
          /\ CurrentContext' = CurrentContext]_vars

\* The aggregator has returned on the sentinel with a fragment in the
\* buffer and no analysis started.
C19_Witness ==
    /\ <<"aggregator", "TranscriptionCh">> \in sentinelTaken
    /\ pc["aggregator"] = "done"
    /\ CurrentTranscript \in {<<"a", " ">>, <<"b", " ">>}
    /\ \A i \in AnalysisIds : analyses[i].pc = "unused"

\* C20: a producer standing at a send on a mailbox can always take the
\* step; it never waits for room.
C20_ProducerSendNeverBlocks ==
    (Running /\ pc["deepgram"] = "send") => ENABLED DeepgramSend

\* ===================================================== claims C21 .. C30

\* C21: whether the reader left its loop on a failed read or on the stop
\* command, it returns only out of the last statement of Stop(), and it
\* leaves the session not active, its context cancelled, the mailboxes
\* closed and the connection closed, the body of Stop() having run once.
C21_DisconnectShutsDownLikeStop ==
    /\ [](\A p \in {"stop", "disconnect"} :
            (readerPath = p /\ pc["reader"] \in {"confirm", "done"})
            => /\ ~IsActive
               /\ CurrentContext \in cancelled
               /\ ClosedByStop \subseteq closed
               /\ ~connOpen
               /\ stopBodies = 1)
    /\ [][(pc["reader"] \notin {"confirm", "done"}
           /\ pc'["reader"] \in {"confirm", "done"})
          => pc["reader"] = "Stop_conn"]_vars

\* The reader has returned after a failed read.
C21_Witness ==
    /\ readerPath = "disconnect"
    /\ pc["reader"] = "done"
    /\ ~connOpen

\* C22: the ticker fires each cycle at the VideoFrequency the session had
\* when that cycle began, so a cadence set by a config message is the one
\* the cycles after it run at.
C22_NewCadenceFromNextCycle ==
    [][\A k \in CaptureIds :
         (captures[k].pc = "unused" /\ captures'[k].pc # "unused")
         => captures'[k].period = cycleFrequency]_vars

\* C23: once Stop() has cancelled the session's context, a step of an
\* analysis that was already running puts nothing on a mailbox, notifies
\* no orchestrator and writes nothing to the client.
C23_NoResultAfterStop ==
    [][\A i \in AnalysisIds :
         (/\ pc["reader"] \in {"Stop_close", "Stop_conn", "confirm", "done"}
          /\ CurrentContext \in cancelled
          /\ analyses'[i] # analyses[i])
         => /\ chans' = chans
            /\ notified' = notified
            /\ sentToClient' = sentToClient]_vars

\* C24: at most one run of analyzeIntention is under way at any time: a
\* run started for an earlier utterance has ended, or has been cancelled
\* and ended, by the time the run for the next utterance starts.
C24_OneLiveAnalysis ==
    Cardinality({i \in AnalysisIds : analyses[i].pc \notin {"unused", "done"}}) <= 1

\* C25: every step that writes CurrentTranscript or IsActive is a step of
\* the coordinator's loop, handleSessionOrchestrator.
C25_CoordinatorOwnsBufferAndLifecycle ==
    [][(CurrentTranscript' # CurrentTranscript \/ IsActive' # IsActive)
        => /\ pc["coordinator"] = "select"
           /\ pc'["coordinator"] # pc["coordinator"]]_vars

\* C26: a result taken off IntentionCh is taken by the coordinator's loop,
\* handleSessionOrchestrator, and by no other task.
C26_CoordinatorConsumesResults ==
    [][(/\ chans["IntentionCh"] # <<>>
        /\ chans'["IntentionCh"] = Tail(chans["IntentionCh"]))
       => /\ pc["coordinator"] = "select"
          /\ pc'["coordinator"] = "loop"]_vars

\* C27: a run of analyzeIntention whose OpenAI call failed has returned
\* with nothing on IntentionCh, no notification and nothing written to the
\* client for its utterance; the failing step touches nothing else of the
\* session, IsActive included; and the next utterance is dispatched.
C27_FailedAnalysisIsAbandoned ==
    /\ [](\A i \in AnalysisIds :
            (analyses[i].pc \notin {"unused", "call"} /\ analyses[i].result.utt = 0)
            => /\ analyses[i].pc = "done"
               /\ \A j \in 1..Len(chans["IntentionCh"]) :
                    chans["IntentionCh"][j].utt # i
               /\ \A n \in notified : n.utt # i
               /\ \A m \in sentToClient : m.utt # i)
    /\ [](((\E i \in AnalysisIds :
               analyses[i].pc = "done" /\ analyses[i].result.utt = 0)
           /\ pc["aggregator"] = "dispatch"
           /\ NextAnalysisId \in AnalysisIds)
          => ENABLED AggregatorDispatch)
    /\ [][\A i \in AnalysisIds :
            (/\ analyses[i].pc = "call"
             /\ analyses'[i].pc # "call"
             /\ analyses'[i].result.utt = 0)
            => /\ IsActive' = IsActive
               /\ chans' = chans
               /\ notified' = notified
               /\ sentToClient' = sentToClient
               /\ pc' = pc]_vars

\* The first analysis failed and the second utterance was analysed to the
\* end, with a result.
C27_Witness ==
    /\ analyses[1].pc = "done"
    /\ analyses[1].result.utt = 0
    /\ analyses[2].pc = "done"
    /\ analyses[2].result.utt = 2
    /\ IsActive

\* C28: a run of analyzeIntention whose retrieval failed, or whose handler
\* has no store connection, goes on to the OpenAI call with an empty
\* context list.
C28_RetrievalFailureProceedsEmpty ==
    /\ [](\A i \in AnalysisIds :
            (/\ analyses[i].pc \notin {"unused", "retrieve"}
             /\ (pineconeIdx = "nil" \/ analyses[i].retrieval = "failed"))
            => analyses[i].environmentContext = <<>>)
    /\ [][\A i \in AnalysisIds :
            (/\ analyses[i].pc \in {"unused", "retrieve"}
             /\ analyses'[i].pc # analyses[i].pc
             /\ (pineconeIdx = "nil" \/ analyses'[i].retrieval = "failed"))
            => analyses'[i].pc = "call"]_vars

\* An analysis whose retrieval failed has run to the end with a result.
C28_Witness ==
    \E i \in AnalysisIds :
        /\ analyses[i].pc = "done"
        /\ analyses[i].result.utt = i
        /\ analyses[i].retrieval = "failed"

\* C29: a step that takes "<END_OF_SPEECH>" off TranscriptionCh while
\* CurrentTranscript is empty starts no analysis, leaves the context and
\* the cancelled contexts as they were and the buffer empty, and does not
\* lead to a dispatch.
C29_EmptyBufferMarkerIsIgnored ==
    [][(/\ chans["TranscriptionCh"] # <<>>
        /\ Head(chans["TranscriptionCh"]) = END_OF_SPEECH
        /\ chans'["TranscriptionCh"] = Tail(chans["TranscriptionCh"])
        /\ CurrentTranscript = <<>>)
       => /\ analyses' = analyses
          /\ CurrentContext' = CurrentContext
          /\ cancelled' = cancelled
          /\ LastActivity' = LastActivity
          /\ CurrentTranscript' = <<>>
          /\ pc'["aggregator"] = "loop"]_vars

\* The only value ever forwarded was an end marker; handleTranscript has
\* taken it and is back at the head of its loop, nothing dispatched.
C29_Witness ==
    /\ dgSent = <<END_OF_SPEECH>>
    /\ pc["deepgram"] = "idle"
    /\ chans["TranscriptionCh"] = <<>>
    /\ pc["aggregator"] = "loop"
    /\ CurrentTranscript = <<>>
    /\ CurrentContext = 0
    /\ \A i \in AnalysisIds : analyses[i].pc = "unused"

\* C30: a step that puts a transcript fragment on TranscriptionCh is the
\* send of the speech-to-text callback, and the confidence of the message
\* it is forwarding is not below the threshold.
C30_LowConfidenceNeverForwarded ==
    [][(/\ Len(chans'["TranscriptionCh"]) > Len(chans["TranscriptionCh"])
        /\ chans'["TranscriptionCh"][Len(chans'["TranscriptionCh"])]
             \notin {SESSION_END, END_OF_SPEECH})
       => /\ pc["deepgram"] = "send"
          /\ chans'["TranscriptionCh"] = Append(chans["TranscriptionCh"], dgPending)
          /\ dgConfidence >= DeepgramThreshold]_vars

\* A fragment has been forwarded, after messages that may have been
\* dropped, and is on the mailbox.
C30_Witness ==
    /\ dgSent # <<>>
    /\ dgSent[1] \notin {SESSION_END, END_OF_SPEECH}
    /\ chans["TranscriptionCh"] # <<>>
    /\ Head(chans["TranscriptionCh"]) = dgSent[1]
    /\ dgConfidence = DeepgramThreshold

\* ===================================================== claims C31 .. C40

\* C31: a fragment or an end marker taken off TranscriptionCh is taken by
\* handleTranscript, and by no other task that reads the mailbox.
C31_AggregatorConsumesTranscription ==
    [][(/\ chans["TranscriptionCh"] # <<>>
        /\ Head(chans["TranscriptionCh"]) # SESSION_END
        /\ chans'["TranscriptionCh"] = Tail(chans["TranscriptionCh"]))
       => /\ pc["aggregator"] = "recv"
          /\ pc'["aggregator"] # "recv"]_vars

\* C32: from the step of Stop() that cancels the context on, the session's
\* current context is a cancelled one.
C32_ScopeStaysCancelledAfterStop ==
    (\E t \in Stoppers : pc[t] \in {"Stop_close", "Stop_conn", "confirm", "done"})
        => CurrentContext \in cancelled

\* C33: once Stop() has returned, no run of analyzeIntention is started,
\* whatever TranscriptionCh still held when Stop() ran.
C33_NoDispatchAfterStop ==
    [][(pc["reader"] \in {"confirm", "done"})
        => \A i \in AnalysisIds :
             analyses[i].pc = "unused" => analyses'[i].pc = "unused"]_vars

\* C34: the orchestrator is notified at most once of each utterance.
C34_OneNotificationPerUtterance ==
    \A i \in AnalysisIds : Cardinality({n \in notified : n.utt = i}) <= 1

\* C36: the reader writes the stop confirmation while the connection is
\* open.
C36_ConfirmationBeforeConnectionClose ==
    [][(pc["reader"] = "confirm" /\ pc'["reader"] = "done") => connOpen]_vars

\* C35: the transcript in the payload of a notification is the utterance
\* the notified result was computed from.
C35_NotificationCarriesItsUtterance ==
    \A i \in AnalysisIds :
        analyses[i].notify = "sent"
            => analyses[i].payloadTranscript = analyses[i].transcript

\* C37: once the session is stopped, the coordinator's cleanup is
\* eventually performed: the three handlers are closed and the
\* speech-to-text connection is stopped.
C37_CleanupEventuallyPerformed ==
    (~IsActive /\ pc["coordinator"] # "absent")
        ~> (/\ \A h \in Handlers : ~handlerActive[h]
            /\ ~dgOpen)

\* C38: whatever the video handler of part_009 receives from
\* VideoAnalysisCh is SESSION_END or a frame handleVideoData put there.
C38_VideoRunConsumesOnlyFrames ==
    [][(/\ pc["videoRun"] = "recv"
        /\ pc'["videoRun"] # "recv"
        /\ tickerPeriod = 0)
       => RecvVal("VideoAnalysisCh") \in {SESSION_END} \cup ClientFrames]_vars

\* C39: a config message that is no object changes neither cadence; a
\* cadence whose value is missing, no string or no duration stays as it
\* was; a cadence whose value is a duration becomes that duration; and the
\* message changes nothing else of the session.
C39_ConfigChangesOnlyValidCadences ==
    [][\A data \in ConfigMessages :
         HandleConfigMessage(data) =>
           LET rejected(setting) ==
                 \/ ~data.isMap
                 \/ ~setting.isString
                 \/ ParseDurationFails(setting.text)
           IN  /\ rejected(data.video) => VideoFrequency' = VideoFrequency
               /\ rejected(data.audio) => AudioFrequency' = AudioFrequency
               /\ ~rejected(data.video) => VideoFrequency' = ParseDuration(data.video.text)
               /\ ~rejected(data.audio) => AudioFrequency' = ParseDuration(data.audio.text)
               /\ UNCHANGED <<sessionVars, chans, closed, LastActivity,
                              handlerActive, pc>>]_vars

\* A message set the capture cadence to "1m30s" and carried no audio
\* cadence: the one is 90 s, the other what NewRoboSession gave it.
C39_Witness ==
    /\ VideoFrequency = 90000
    /\ AudioFrequency = 100
    /\ [type |-> "config_updated", utt |-> 0] \in sentToClient

\* C40: VideoFrequency is positive in every state.
C40_CadenceIsPositive == VideoFrequency > 0
====
